---- MODULE Spec2Model ----
(***************************************************************************)
(* A model of raid-helper (src/main.go; src/unnamed/part_000 is an earlier *)
(* revision of the same file, without the progress bar): the one-shot      *)
(* subcommands, the poll-until-idle procedure waitForRaidAndReboot, and    *)
(* the line scanners of /proc/mdstat (getMdChecking, getMdProgress,        *)
(* getMdTimeLeft).                                                         *)
(*                                                                         *)
(* One run of the process is one behaviour of Spec: Init picks the         *)
(* subcommand, its arguments and the content of the kernel control files;  *)
(* every file operation then succeeds or fails as the environment likes,   *)
(* and every read of /proc/mdstat may see a different content.  What the   *)
(* process did is recorded, in order, in the history variable trace.       *)
(*                                                                         *)
(* SpecParse runs one of the three scanners over a status file that the    *)
(* environment hands over line by line, as bufio.Scanner does.             *)
(***************************************************************************)
EXTENDS Integers, Sequences, FiniteSets, TLC

VARIABLES
    cmd,         \* the subcommand cobra dispatched to
    args,        \* its positional arguments, each a sequence of characters
    forced,      \* the parameter of waitForRaidAndReboot
    pc,          \* where the process is
    exitCode,    \* -1 while running, then the exit status
    speedLimit,  \* content of /proc/sys/dev/raid/speed_limit_max
    syncAction,  \* content of /sys/block/md0/md/sync_action
    trace,       \* what the process did so far, in order
    console,     \* what the poll loop showed since it last cleared the screen
    fn,          \* SpecParse: the scanner that runs
    line,        \* SpecParse: scanner.Text() of the line scanned last
    scanned,     \* SpecParse: number of lines scanned so far
    count,       \* SpecParse: getMdChecking's local count
    ret,         \* SpecParse: what the scanner returned
    percent,     \* SpecBar: drawProgressBar's percent, the quotient <<num, den>>
    width,       \* SpecBar: drawProgressBar's width
    drawn        \* SpecBar: what drawProgressBar returned

procVars == <<cmd, args, forced, pc, exitCode, speedLimit, syncAction, trace, console>>
parseVars == <<fn, line, scanned, count, ret>>
barVars == <<percent, width, drawn>>
vars == <<cmd, args, forced, pc, exitCode, speedLimit, syncAction, trace, console,
          fn, line, scanned, count, ret, percent, width, drawn>>

---------------------------------------------------------------------------
(* Bounds of the model.                                                    *)

\* reads of the status file the poll loop may perform in one behaviour
MaxPolls == 3
\* largest active check count a read of the status file returns
MaxCount == 1
\* longest minutes argument of the high command, in characters
MaxArgLen == 2
\* lines of the status file a scanner reads before the file ends
MaxLines == 2
\* longest line getMdTimeLeft is given, in pieces of TimePieces
MaxPieces == 4
\* longest progress bar getMdProgress is given, in characters
MaxBar == 3
\* widest bar drawProgressBar is asked for, besides the widths of its callers
MaxWidth == 20
\* largest denominator of the percent drawProgressBar is given
MaxDen == 3

---------------------------------------------------------------------------
(* Constants of the program.                                               *)

speedLimitPath == "/proc/sys/dev/raid/speed_limit_max"
mdstatPath == "/proc/mdstat"
syncActionPath == "/sys/block/md0/md/sync_action"

normalSpeed == "200000"
highSpeed == "2000000"
lowSpeed == "3000"

\* time.Sleep(10 * time.Second) after a failed read in the poll loop
ShortBackoff == 10
\* mutant: the loop sleeps the backoff between two polls as well
PollIntervalAsBackoff == ShortBackoff

\* time.Sleep(100 * time.Second) between two polls
PollInterval == 100
\* time.Minute, in seconds
Minute == 60

---------------------------------------------------------------------------
(* Events of the trace: one record shape for all of them.                  *)

Ev(op, at, ok, n, s) == [op |-> op, at |-> at, ok |-> ok, n |-> n, s |-> s]

\* getMdChecking() called at `at` ("loop", "final", or the command's name)
EvChecking(at, r) == Ev("getMdChecking", at, r.ok, r.n, "")
EvTimeLeft(r) == Ev("getMdTimeLeft", "", r.ok, 0, r.v)
EvProgress(r) == Ev("getMdProgress", "", r.ok, 0, r.v)
EvSpeed(r) == Ev("getCurrentSpeed", "", r.ok, 0, r.v)
EvWrite(path, val, ok) == Ev("WriteFile", path, ok, 0, val)
EvSleep(sec) == Ev("Sleep", "", TRUE, sec, "")
EvLog(msg) == Ev("log.Printf", "", TRUE, 0, msg)
EvFatal(msg) == Ev("log.Fatalf", "", TRUE, 1, msg)
EvOut(msg) == Ev("stdout", "", TRUE, 0, msg)
EvReboot(ok) == Ev("reboot", "", ok, 0, "")

---------------------------------------------------------------------------
(* What the environment can answer to a file operation.                    *)

\* getMdChecking: (0, err) or (count, nil)
ChkResults ==
    {[ok |-> FALSE, n |-> 0]} \cup {[ok |-> TRUE, n |-> c] : c \in 0..MaxCount}

\* getMdTimeLeft: ("", err), ("", nil) or (token, nil)
TimeResults ==
    {[ok |-> FALSE, v |-> ""], [ok |-> TRUE, v |-> ""], [ok |-> TRUE, v |-> "37.2min"]}

\* getMdProgress: (0, I/O error), (0, "no progress information found"), (p, nil)
ProgResults ==
    {[ok |-> FALSE, v |-> "io"], [ok |-> FALSE, v |-> "none"], [ok |-> TRUE, v |-> "42.0"]}

\* getCurrentSpeed: ("", err) or (the trimmed content, nil)
SpeedResults ==
    {[ok |-> FALSE, v |-> ""], [ok |-> TRUE, v |-> speedLimit]}

---------------------------------------------------------------------------
(* strconv.Atoi on the characters the model draws arguments from.          *)

Digits == {"0", "1", "2", "3", "4", "5", "6", "7", "8", "9"}

DigitVal(c) ==
    CASE c = "0" -> 0 [] c = "1" -> 1 [] c = "2" -> 2 [] c = "3" -> 3
      [] c = "4" -> 4 [] c = "5" -> 5 [] c = "6" -> 6 [] c = "7" -> 7
      [] c = "8" -> 8 [] OTHER -> 9

RECURSIVE DecVal(_)
DecVal(s) ==
    IF s = <<>> THEN 0
    ELSE DecVal(SubSeq(s, 1, Len(s) - 1)) * 10 + DigitVal(s[Len(s)])

\* the digits of s once an optional leading sign is dropped
Unsigned(s) ==
    IF s # <<>> /\ s[1] \in {"+", "-"} THEN Tail(s) ELSE s

\* err == nil: an optional sign, then one or more decimal digits
AtoiOk(s) ==
    /\ Unsigned(s) # <<>>
    /\ \A i \in 1..Len(Unsigned(s)) : Unsigned(s)[i] \in Digits

Atoi(s) ==
    IF s # <<>> /\ s[1] = "-" THEN 0 - DecVal(Unsigned(s)) ELSE DecVal(Unsigned(s))

ArgChars == {"5", "x", "-"}

RECURSIVE SeqsUpTo(_, _)
SeqsUpTo(S, n) ==
    IF n = 0 THEN {<<>>}
    ELSE LET shorter == SeqsUpTo(S, n - 1)
         IN  shorter \cup {Append(s, c) : s \in shorter, c \in S}

\* the argument lists the high command is run with: none, or one string
HighArgs == {<<>>} \cup {<<s>> : s \in SeqsUpTo(ArgChars, MaxArgLen)}

---------------------------------------------------------------------------
(* The process.                                                            *)

Commands ==
    {"status", "normal", "high", "low", "stop", "start", "check", "progress",
     "reboot", "forcereboot", "showstatus"}

Init ==
    /\ cmd \in Commands
    /\ args \in (IF cmd = "high" THEN HighArgs ELSE {<<>>})
    /\ forced = FALSE
    /\ pc = "run"
    /\ exitCode = -1
    /\ speedLimit \in {normalSpeed, highSpeed, lowSpeed, "1000"}
    /\ syncAction \in {"idle", "check"}
    /\ trace = <<>>
    /\ console = <<>>
    /\ fn = "none"
    /\ line = <<>>
    /\ scanned = 0
    /\ count = 0
    /\ ret = [err |-> "", n |-> 0, num |-> 0, den |-> 1, str |-> <<>>]
    /\ percent = <<0, 1>>
    /\ width = 0
    /\ drawn = [panic |-> FALSE, text |-> <<>>]

\* the handler returns and main exits 0
Return(evs) ==
    /\ trace' = trace \o evs
    /\ pc' = "exit"
    /\ exitCode' = 0

\* mutant: log.Printf where log.Fatalf was meant, so the handler goes on
FatalfAsPrintf(evs, msg) ==
    /\ trace' = trace \o evs \o <<EvLog(msg)>>
    /\ pc' = "exit"
    /\ exitCode' = 0

\* log.Fatalf: the message, then os.Exit(1)
Fatalf(evs, msg) ==
    /\ trace' = trace \o evs \o <<EvFatal(msg)>>
    /\ pc' = "exit"
    /\ exitCode' = 1

\* a command that is one setSpeed(speed)
SetSpeedCmd(name, speed, msg, errmsg) ==
    /\ cmd = name
    /\ pc = "run"
    /\ \E ok \in BOOLEAN :
         IF ok
         THEN /\ Return(<<EvOut(msg), EvWrite(speedLimitPath, speed, TRUE)>>)
              /\ speedLimit' = speed
         ELSE /\ Fatalf(<<EvOut(msg), EvWrite(speedLimitPath, speed, FALSE)>>, errmsg)
              /\ UNCHANGED speedLimit
    /\ UNCHANGED <<cmd, args, forced, syncAction, console, parseVars, barVars>>

\* a command that is one setSyncAction(action)
SetSyncActionCmd(name, action, msg, errmsg) ==
    /\ cmd = name
    /\ pc = "run"
    /\ \E ok \in BOOLEAN :
         IF ok
         THEN /\ Return(<<EvOut(msg), EvWrite(syncActionPath, action, TRUE)>>)
              /\ syncAction' = action
         ELSE /\ Fatalf(<<EvOut(msg), EvWrite(syncActionPath, action, FALSE)>>, errmsg)
              /\ UNCHANGED syncAction
    /\ UNCHANGED <<cmd, args, forced, speedLimit, console, parseVars, barVars>>

normalCmd ==
    SetSpeedCmd("normal", normalSpeed, "Setting raid check to normal speed",
                "Error setting normal speed")

lowCmd ==
    SetSpeedCmd("low", lowSpeed, "Setting raid check to low speed",
                "Error setting low speed")

stopCmd ==
    SetSyncActionCmd("stop", "idle", "Stopping raid check", "Error stopping raid check")

startCmd ==
    SetSyncActionCmd("start", "check", "Starting raid check", "Error starting raid check")

highCmd ==
    /\ cmd = "high"
    /\ pc = "run"
    /\ \E ok \in BOOLEAN :
         LET out == <<EvOut("Setting raid check to high speed")>>
             set == <<EvWrite(speedLimitPath, highSpeed, ok)>>
         IN  IF ~ok
             THEN /\ Fatalf(out \o set, "Error setting high speed")
                  /\ UNCHANGED speedLimit
             ELSE /\ speedLimit' = highSpeed
                  /\ IF Len(args) = 0
                     THEN Return(out \o set)
                     ELSE IF ~AtoiOk(args[1])
                     THEN Fatalf(out \o set, "Invalid minutes value")
                     ELSE /\ trace' = trace \o out \o set
                                        \o <<EvOut("for %d minutes"),
                                             EvSleep(Atoi(args[1]) * Minute)>>
                          /\ pc' = "high_revert"
                          /\ UNCHANGED exitCode
    /\ UNCHANGED <<cmd, args, forced, syncAction, console, parseVars, barVars>>

\* main.go:181: after the sleep, back to normal speed
highCmdRevert ==
    /\ cmd = "high"
    /\ pc = "high_revert"
    /\ \E ok \in BOOLEAN :
         IF ok
         THEN /\ Return(<<EvWrite(speedLimitPath, normalSpeed, TRUE)>>)
              /\ speedLimit' = normalSpeed
         ELSE /\ Fatalf(<<EvWrite(speedLimitPath, normalSpeed, FALSE)>>,
                        "Error resetting to normal speed")
              /\ UNCHANGED speedLimit
    /\ UNCHANGED <<cmd, args, forced, syncAction, console, parseVars, barVars>>

checkCmd ==
    /\ cmd = "check"
    /\ pc = "run"
    /\ \E r \in ChkResults :
         IF ~r.ok
         THEN Fatalf(<<EvChecking("check", r)>>, "Error checking RAID status")
         ELSE Return(<<EvChecking("check", r), EvOut("count")>>)
    /\ UNCHANGED <<cmd, args, forced, speedLimit, syncAction, console, parseVars, barVars>>

progressCmd ==
    /\ cmd = "progress"
    /\ pc = "run"
    /\ \E r \in ChkResults, rp \in ProgResults, rt \in TimeResults :
         LET chk == <<EvChecking("progress", r)>>
             prog == <<EvProgress(rp)>>
             time == <<EvTimeLeft(rt)>>
                       \o (IF ~rt.ok THEN <<EvLog("Error getting time left")>> ELSE <<>>)
             bar == <<EvOut("bar")>>
                       \o (IF rt.v # "" THEN <<EvOut("Time remaining")>> ELSE <<>>)
         IN  IF ~r.ok
             THEN Fatalf(chk, "Error checking RAID status")
             ELSE IF r.n = 0
             THEN Return(chk \o <<EvOut("No RAID check in progress")>>)
             ELSE IF ~rp.ok
             THEN Fatalf(chk \o prog, "Error getting progress")
             ELSE Return(chk \o prog \o time \o bar)
    /\ UNCHANGED <<cmd, args, forced, speedLimit, syncAction, console, parseVars, barVars>>

\* the speed line both status blocks end with
SpeedBlock(rs) ==
    <<EvSpeed(rs)>>
      \o (IF ~rs.ok THEN <<EvLog("Error reading current speed")>>
          ELSE IF rs.v \in {normalSpeed, highSpeed, lowSpeed} THEN <<EvOut("Speed")>>
          ELSE <<>>)

showOnlyStatus ==
    /\ cmd = "showstatus"
    /\ pc = "run"
    /\ \E r \in ChkResults, rt \in TimeResults, rs \in SpeedResults :
         LET chk == <<EvChecking("showstatus", r)>>
                      \o (IF ~r.ok THEN <<EvLog("Error checking RAID status")>>
                          ELSE IF r.n > 0
                          THEN <<EvOut("Currently Checking RAID"), EvTimeLeft(rt)>>
                                 \o (IF rt.ok /\ rt.v # "" THEN <<EvOut("Time left")>>
                                     ELSE <<>>)
                          ELSE <<>>)
         IN  Return(chk \o SpeedBlock(rs))
    /\ UNCHANGED <<cmd, args, forced, speedLimit, syncAction, console, parseVars, barVars>>

showStatus ==
    /\ cmd = "status"
    /\ pc = "run"
    /\ \E r \in ChkResults, rt \in TimeResults, rp \in ProgResults, rs \in SpeedResults :
         LET chk == <<EvChecking("status", r)>>
                      \o (IF ~r.ok THEN <<EvLog("Error checking RAID status")>>
                          ELSE IF r.n > 0
                          THEN <<EvOut("Currently Checking Raid"), EvTimeLeft(rt)>>
                                 \o (IF rt.ok /\ rt.v # "" THEN <<EvOut("Time left")>>
                                     ELSE <<>>)
                                 \o <<EvProgress(rp)>>
                                 \o (IF rp.ok THEN <<EvOut("bar")>> ELSE <<>>)
                          ELSE <<>>)
         IN  Return(chk \o SpeedBlock(rs) \o <<EvOut("Available commands")>>)
    /\ UNCHANGED <<cmd, args, forced, speedLimit, syncAction, console, parseVars, barVars>>

---------------------------------------------------------------------------
(* waitForRaidAndReboot and the two commands that call it.                 *)

rebootCmd ==
    /\ cmd = "reboot"
    /\ pc = "run"
    /\ pc' = "poll"
    /\ forced' = FALSE
    /\ UNCHANGED <<cmd, args, exitCode, speedLimit, syncAction, trace, console, parseVars, barVars>>

forceRebootCmd ==
    /\ cmd = "forcereboot"
    /\ pc = "run"
    /\ \E ok \in BOOLEAN :
         IF ok
         THEN /\ trace' = trace \o <<EvWrite(syncActionPath, "idle", TRUE)>>
              /\ syncAction' = "idle"
              /\ pc' = "poll"
              /\ forced' = TRUE
              /\ UNCHANGED exitCode
         ELSE /\ Fatalf(<<EvWrite(syncActionPath, "idle", FALSE)>>,
                        "Error stopping raid check")
              /\ UNCHANGED <<syncAction, forced>>
    /\ UNCHANGED <<cmd, args, speedLimit, console, parseVars, barVars>>

\* number of events of t that satisfy P
CountEv(t, P(_)) == Cardinality({i \in 1..Len(t) : P(t[i])})

IsLoopRead(e) == e.op = "getMdChecking" /\ e.at = "loop"

\* mutant: the error of the read is not looked at
LoopReadErrorIgnored(r) == FALSE

\* main.go:377: err != nil
LoopReadFailed(r) == ~r.ok

\* main.go:383: count == 0
LoopBreaks(r) == r.n = 0

\* mutant: the error of the final read is not looked at
FinalReadErrorIgnored(r) == FALSE

\* main.go:411: err != nil
FinalReadFatal(r) == ~r.ok

\* mutant: the final count is not looked at
RebootAlways(r) == TRUE

\* main.go:415: count == 0
RebootDecision(r) == r.n = 0

\* main.go:390-406: the screen is cleared and the status shown
Render(rt, rp) ==
    <<EvTimeLeft(rt)>>
      \o (IF ~rt.ok THEN <<EvLog("Error getting time left")>> ELSE <<>>)
      \o (IF rt.v # "" THEN <<EvOut("Reboot will occur in")>>
          ELSE <<EvOut("Reboot will occur when RAID check completes")>>)
      \o <<EvProgress(rp)>>
      \o (IF rp.ok THEN <<EvOut("bar")>> ELSE <<>>)

\* one iteration of the for loop; f is the parameter forced, which the body
\* never reads
PollLoop(f) ==
    /\ pc = "poll"
    /\ CountEv(trace, IsLoopRead) < MaxPolls
    /\ \E r \in ChkResults, rt \in TimeResults, rp \in ProgResults :
         IF LoopReadFailed(r)
         THEN /\ trace' = trace \o <<EvChecking("loop", r),
                                     EvLog("Error checking RAID status"),
                                     EvSleep(ShortBackoff)>>
              /\ pc' = "poll"
              /\ UNCHANGED console
         ELSE IF LoopBreaks(r)
         THEN /\ trace' = trace \o <<EvChecking("loop", r)>>
              /\ pc' = "final"
              /\ UNCHANGED console
         ELSE /\ trace' = trace \o <<EvChecking("loop", r), EvSleep(PollInterval)>>
              /\ console' = Render(rt, rp)
              /\ pc' = "poll"
    /\ UNCHANGED <<cmd, args, forced, exitCode, speedLimit, syncAction, parseVars, barVars>>

\* the final check and the reboot
FinalCheck(f) ==
    /\ pc = "final"
    /\ \E r \in ChkResults, ran \in BOOLEAN :
         LET chk == <<EvChecking("final", r)>>
             boot == <<EvOut("RAID check complete. Rebooting..."), EvReboot(ran)>>
         IN  IF FinalReadFatal(r)
             THEN Fatalf(chk, "Error in final RAID check")
             ELSE IF RebootDecision(r)
             THEN IF ran THEN Return(chk \o boot)
                  ELSE Fatalf(chk \o boot, "Error executing reboot")
             ELSE Return(chk)
    /\ UNCHANGED <<cmd, args, forced, speedLimit, syncAction, console, parseVars, barVars>>

\* mutant: a forced run reboots without the final check
waitForRaidAndRebootForcedSkipsFinalCheck(f) ==
    \/ PollLoop(f)
    \/ IF f
       THEN /\ pc = "final"
            /\ Return(<<EvOut("RAID check complete. Rebooting..."), EvReboot(TRUE)>>)
            /\ UNCHANGED <<cmd, args, forced, speedLimit, syncAction, console, parseVars, barVars>>
       ELSE FinalCheck(f)

waitForRaidAndReboot(f) == PollLoop(f) \/ FinalCheck(f)

Next ==
    \/ showStatus
    \/ normalCmd
    \/ highCmd
    \/ highCmdRevert
    \/ lowCmd
    \/ stopCmd
    \/ startCmd
    \/ checkCmd
    \/ progressCmd
    \/ rebootCmd
    \/ forceRebootCmd
    \/ showOnlyStatus
    \/ waitForRaidAndReboot(forced)

Spec == Init /\ [][Next]_vars

---------------------------------------------------------------------------
(* The scanners of /proc/mdstat.  A line is a sequence of characters.      *)

sCheck == <<"c", "h", "e", "c", "k">>
sResync == <<"r", "e", "s", "y", "n", "c">>
sFinish == <<"f", "i", "n", "i", "s", "h">>
sFinishEq == sFinish \o <<"=">>

\* strings.Contains(s, sub)
Contains(s, sub) ==
    \E i \in 1..(Len(s) - Len(sub) + 1) : SubSeq(s, i, i + Len(sub) - 1) = sub

\* strings.Count(s, c) for a one-character c
StrCount(s, c) == Cardinality({i \in 1..Len(s) : s[i] = c})

MinOf(S) == CHOOSE x \in S : \A y \in S : x <= y

\* length of the longest run of characters of the class that starts at s[i]:
\* what a greedy [class]+ consumes there
RunLen(s, i, InClass(_)) ==
    LET stops == {j \in i..Len(s) : ~InClass(s[j])}
    IN  IF stops = {} THEN Len(s) - i + 1 ELSE MinOf(stops) - i

\* the class of `finish=([^\\s]+)`: the pattern is a raw string, so the class
\* holds an escaped backslash and the letter s, and excludes just these two
FinishClass(c) == c \notin {"\\", "s"}

\* regexp.MustCompile(`finish=([^\\s]+)`).FindStringSubmatch(s):
\* <<>> for no match, else <<the match, the group>> of the leftmost match
finishRe(s) ==
    LET starts == {i \in 1..(Len(s) - Len(sFinishEq) + 1) :
                      /\ SubSeq(s, i, i + Len(sFinishEq) - 1) = sFinishEq
                      /\ RunLen(s, i + Len(sFinishEq), FinishClass) >= 1}
    IN  IF starts = {} THEN <<>>
        ELSE LET i == MinOf(starts)
                 g == i + Len(sFinishEq)
                 n == RunLen(s, g, FinishClass)
             IN  <<SubSeq(s, i, g + n - 1), SubSeq(s, g, g + n - 1)>>

\* mutant: the class also takes the characters of the device-state bracket
ProgressClassWithDeviceState(c) == c \in {"=", ">", ".", "U", "_"}

\* the class of `\[([=>\.]+)\]`
ProgressClass(c) == c \in {"=", ">", "."}

\* regexp.MustCompile(`\[([=>\.]+)\]`).FindStringSubmatch(s)
progressRe(s) ==
    LET starts == {i \in 1..Len(s) :
                      /\ s[i] = "["
                      /\ RunLen(s, i + 1, ProgressClass) >= 1
                      /\ i + 1 + RunLen(s, i + 1, ProgressClass) <= Len(s)
                      /\ s[i + 1 + RunLen(s, i + 1, ProgressClass)] = "]"}
    IN  IF starts = {} THEN <<>>
        ELSE LET i == MinOf(starts)
                 n == RunLen(s, i + 1, ProgressClass)
             IN  <<SubSeq(s, i, i + n + 1), SubSeq(s, i + 1, i + n)>>

\* what a scanner returns: err is "" for nil; n is getMdChecking's count;
\* num/den is getMdProgress's float64(completed) / float64(total) * 100 as the
\* exact quotient (the rounding of float64 is not modelled); str is
\* getMdTimeLeft's string
Ret(err, n, num, den, str) ==
    [err |-> err, n |-> n, num |-> num, den |-> den, str |-> str]

RECURSIVE Concat(_)
Concat(ss) == IF ss = <<>> THEN <<>> ELSE Head(ss) \o Concat(Tail(ss))

\* the pieces the lines given to getMdTimeLeft are made of
TimePieces ==
    {sFinishEq, sFinish, <<"3", "7", ".", "2", "m", "i", "n">>, <<" ">>,
     <<"s", "p", "e", "e", "d", "=">>, <<"\\">>}

TimeLines == {Concat(ps) : ps \in SeqsUpTo(TimePieces, MaxPieces)}

\* the lines given to getMdProgress and getMdChecking: a device-state part, a
\* marker, a bracket (closed or not) of up to MaxBar bar characters, a tail
Bars == SeqsUpTo({"=", ">", "."}, MaxBar)

ProgressLines ==
    {d \o m \o <<" ">> \o b \o t :
        d \in {<<>>, <<"[", "U", "U", "_", "]">>, <<"[", "3", "/", "4", "]">>,
               <<"[", ".", "]">>, <<"[", "=", "U", "]">>},
        m \in {<<>>, sCheck, sResync},
        b \in {<<>>} \cup {<<"[">> \o x \o <<"]">> : x \in Bars}
                     \cup {<<"[">> \o x : x \in Bars},
        t \in {<<>>, <<"[", ">", "]">>}}

Scanners == {"getMdChecking", "getMdProgress", "getMdTimeLeft"}

InitParse ==
    /\ cmd = "none"
    /\ args = <<>>
    /\ forced = FALSE
    /\ pc = "open"
    /\ exitCode = -1
    /\ speedLimit = normalSpeed
    /\ syncAction = "idle"
    /\ trace = <<>>
    /\ console = <<>>
    /\ fn \in Scanners
    /\ line = <<>>
    /\ scanned = 0
    /\ count = 0
    /\ ret = Ret("", 0, 0, 1, <<>>)
    /\ percent = <<0, 1>>
    /\ width = 0
    /\ drawn = [panic |-> FALSE, text |-> <<>>]

\* os.Open(mdstatPath), and its failure
Open ==
    /\ pc = "open"
    /\ \E ok \in BOOLEAN :
         IF ok
         THEN pc' = "scan" /\ UNCHANGED ret
         ELSE pc' = "returned" /\ ret' = Ret("open", 0, 0, 1, <<>>)
    /\ UNCHANGED <<cmd, args, forced, exitCode, speedLimit, syncAction, trace, console,
                   barVars,
                   fn, line, scanned, count>>

\* the lines the environment may put in the file a scanner reads
LinesFor(f) == IF f = "getMdTimeLeft" THEN TimeLines ELSE ProgressLines

\* scanner.Scan() returns true: scanner.Text() is the next line of the file
Scan ==
    /\ pc = "scan"
    /\ scanned < MaxLines
    /\ line' \in LinesFor(fn)
    /\ scanned' = scanned + 1
    /\ pc' = "body"
    /\ UNCHANGED <<cmd, args, forced, exitCode, speedLimit, syncAction, trace, console,
                   barVars,
                   fn, count, ret>>

\* the loop body of getMdChecking; the line is dead once the body is done
getMdChecking ==
    /\ fn = "getMdChecking"
    /\ pc = "body"
    /\ count' = IF Contains(line, sCheck) THEN count + 1 ELSE count
    /\ line' = <<>>
    /\ pc' = "scan"
    /\ UNCHANGED <<cmd, args, forced, exitCode, speedLimit, syncAction, trace, console,
                   barVars,
                   fn, scanned, ret>>

\* the loop body of getMdProgress
getMdProgress ==
    /\ fn = "getMdProgress"
    /\ pc = "body"
    /\ LET matches == progressRe(line)
       IN  IF (Contains(line, sCheck) \/ Contains(line, sResync)) /\ Len(matches) > 1
           THEN LET progress == matches[2]
                    completed == StrCount(progress, "=") + StrCount(progress, ">")
                    total == Len(progress)
                IN  /\ ret' = Ret("", 0, completed * 100, total, <<>>)
                    /\ pc' = "returned"
                    /\ UNCHANGED line
           ELSE /\ line' = <<>>
                /\ pc' = "scan"
                /\ UNCHANGED ret
    /\ UNCHANGED <<cmd, args, forced, exitCode, speedLimit, syncAction, trace, console,
                   barVars,
                   fn, scanned, count>>

\* the loop body of getMdTimeLeft
getMdTimeLeft ==
    /\ fn = "getMdTimeLeft"
    /\ pc = "body"
    /\ LET matches == finishRe(line)
       IN  IF Contains(line, sFinish) /\ Len(matches) > 1
           THEN /\ ret' = Ret("", 0, 0, 1, matches[2])
                /\ pc' = "returned"
                /\ UNCHANGED line
           ELSE /\ line' = <<>>
                /\ pc' = "scan"
                /\ UNCHANGED ret
    /\ UNCHANGED <<cmd, args, forced, exitCode, speedLimit, syncAction, trace, console,
                   barVars,
                   fn, scanned, count>>

\* scanner.Scan() returns false: the file ended, or reading it failed
ScanEnd ==
    /\ pc = "scan"
    /\ \E ok \in BOOLEAN :
         ret' = IF ~ok THEN Ret("read", 0, 0, 1, <<>>)
                ELSE IF fn = "getMdChecking" THEN Ret("", count, 0, 1, <<>>)
                ELSE IF fn = "getMdProgress" THEN Ret("no progress information found", 0, 0, 1, <<>>)
                ELSE Ret("", 0, 0, 1, <<>>)
    /\ pc' = "returned"
    /\ UNCHANGED <<cmd, args, forced, exitCode, speedLimit, syncAction, trace, console,
                   barVars,
                   fn, line, scanned, count>>

NextParse ==
    \/ Open
    \/ Scan
    \/ getMdChecking
    \/ getMdProgress
    \/ getMdTimeLeft
    \/ ScanEnd

SpecParse == InitParse /\ [][NextParse]_vars

---------------------------------------------------------------------------
(* drawProgressBar.  The percent is the quotient percent[1] / percent[2],  *)
(* kept exact (the rounding of float64 is not modelled).  SpecBar calls    *)
(* the function once, with any width and a percent that may also lie       *)
(* outside of [0, 100], where strings.Repeat can panic.                    *)

\* drawProgressBar(progress, 50) of progressCmd and waitForRaidAndReboot
ProgressWidth == 50
\* drawProgressBar(progress, 20) of showStatus
StatusWidth == 20

\* int(x) of the quotient x = a / b, b > 0: the fraction is dropped
TruncDiv(a, b) == IF a >= 0 THEN a \div b ELSE 0 - ((0 - a) \div b)

\* strings.Repeat(c, n), n >= 0
Repeat(c, n) == [i \in 1..n |-> c]

\* completed := int(float64(width) * percent / 100)
Completed(p, w) == TruncDiv(w * p[1], p[2] * 100)

\* mutant: the transition character does not take a place of the filler
DotsWithoutDecrement(remaining) == remaining

\* the filler characters left once the transition character is written
Dots(remaining) == IF remaining > 0 THEN remaining - 1 ELSE remaining

\* the transition character, if any space remains
Arrow(remaining) == IF remaining > 0 THEN <<">">> ELSE <<>>

Widths == (0..MaxWidth) \cup {ProgressWidth, StatusWidth}

Percents == {<<n, d>> : n \in (0 - 10 * MaxDen)..(110 * MaxDen), d \in 1..MaxDen}

InitBar ==
    /\ cmd = "none"
    /\ args = <<>>
    /\ forced = FALSE
    /\ pc = "draw"
    /\ exitCode = -1
    /\ speedLimit = normalSpeed
    /\ syncAction = "idle"
    /\ trace = <<>>
    /\ console = <<>>
    /\ fn = "none"
    /\ line = <<>>
    /\ scanned = 0
    /\ count = 0
    /\ ret = Ret("", 0, 0, 1, <<>>)
    /\ percent \in {p \in Percents : 0 - 10 * p[2] <= p[1] /\ p[1] <= 110 * p[2]}
    /\ width \in Widths
    /\ drawn = [panic |-> FALSE, text |-> <<>>]

\* the "[%s]" of the result; the " %.1f%%" that follows it is left out.
\* strings.Repeat panics on a negative count.
drawProgressBar ==
    /\ pc = "draw"
    /\ LET completed == Completed(percent, width)
           remaining == width - completed
       IN  IF completed < 0 \/ Dots(remaining) < 0
           THEN /\ drawn' = [panic |-> TRUE, text |-> <<>>]
                /\ pc' = "panic"
           ELSE /\ drawn' = [panic |-> FALSE,
                             text |-> <<"[">> \o Repeat("=", completed)
                                        \o Arrow(remaining)
                                        \o Repeat(".", Dots(remaining)) \o <<"]">>]
                /\ pc' = "drawn"
    /\ UNCHANGED <<cmd, args, forced, exitCode, speedLimit, syncAction, trace, console,
                   parseVars, percent, width>>

NextBar == drawProgressBar

SpecBar == InitBar /\ [][NextBar]_vars

---------------------------------------------------------------------------
(* Reading the trace.                                                      *)

IsChecking(e) == e.op = "getMdChecking"
IsFinalRead(e) == e.op = "getMdChecking" /\ e.at = "final"
IsZeroRead(e) == e.op = "getMdChecking" /\ e.ok /\ e.n = 0
IsActiveRead(e) == e.op = "getMdChecking" /\ e.ok /\ e.n > 0
IsFailedRead(e) == e.op = "getMdChecking" /\ ~e.ok
IsReboot(e) == e.op = "reboot"
IsFatal(e) == e.op = "log.Fatalf"
IsLongSleep(e) == e.op = "Sleep" /\ e.n = PollInterval
IsShortSleep(e) == e.op = "Sleep" /\ e.n = ShortBackoff
IsWriteDone(e) == e.op = "WriteFile" /\ e.ok

Positions(t, P(_)) == {i \in 1..Len(t) : P(t[i])}
MaxOf(S) == CHOOSE x \in S : \A y \in S : y <= x

InWait == cmd \in {"reboot", "forcereboot"}

---------------------------------------------------------------------------
(* C1: the reboot action is invoked only when the two most recent status   *)
(* reads both succeeded and both returned count 0, the later one being the *)
(* confirmatory re-read and the earlier one the read that ended the loop;  *)
(* no other command ever reboots.                                          *)
C1_RebootOnlyAfterTwoZeroReads ==
    \A i \in Positions(trace, IsReboot) :
        LET R == {j \in Positions(trace, IsChecking) : j < i}
        IN  /\ InWait
            /\ Cardinality(R) >= 2
            /\ LET last == MaxOf(R)
                   prev == MaxOf(R \ {last})
               IN  /\ IsZeroRead(trace[last]) /\ trace[last].at = "final"
                   /\ IsZeroRead(trace[prev]) /\ trace[prev].at = "loop"

\* a reboot after the status file was seen unreadable and then active
C1_Witness ==
    /\ Positions(trace, IsReboot) # {}
    /\ \E i, j \in 1..Len(trace) :
         i < j /\ IsFailedRead(trace[i]) /\ IsActiveRead(trace[j])

(* C2: in the poll loop a failed status read is followed by the log line,  *)
(* the short backoff (shorter than the poll interval) and, when the loop   *)
(* goes on, another status read of the loop; the process is still running  *)
(* and polling after the backoff, and nothing else follows a failed read.  *)
C2_FailedReadRetries ==
    /\ ShortBackoff < PollInterval
    /\ \A i \in Positions(trace, IsLoopRead) :
         ~trace[i].ok =>
            /\ Len(trace) >= i + 2
            /\ trace[i + 1].op = "log.Printf"
            /\ trace[i + 2] = EvSleep(ShortBackoff)
            /\ Len(trace) > i + 2 => IsLoopRead(trace[i + 3])
            /\ Len(trace) = i + 2 =>
                  /\ pc = "poll"
                  /\ exitCode = -1
                  /\ CountEv(trace, IsLoopRead) < MaxPolls => ENABLED PollLoop(forced)

\* two failed reads in a row, and the loop still polling
C2_Witness ==
    /\ pc = "poll"
    /\ \E i \in 1..Len(trace) :
         /\ i + 3 <= Len(trace)
         /\ IsLoopRead(trace[i]) /\ ~trace[i].ok
         /\ IsLoopRead(trace[i + 3]) /\ ~trace[i + 3].ok

(* C3: a failed confirmatory re-read is fatal: the fatal log line is the   *)
(* last thing the process does, it exits with status 1, and no reboot, no  *)
(* further read and no further sleep happens.                              *)
C3_FailedRecheckAborts ==
    \A i \in Positions(trace, IsFinalRead) :
        ~trace[i].ok =>
           /\ Len(trace) = i + 1
           /\ IsFatal(trace[i + 1])
           /\ pc = "exit"
           /\ exitCode = 1
           /\ Positions(trace, IsReboot) = {}
           /\ Cardinality(Positions(trace, IsFinalRead)) = 1

\* the loop saw count 0 and the re-read then failed
C3_Witness ==
    \E i \in Positions(trace, IsFinalRead) :
        /\ ~trace[i].ok
        /\ i > 1
        /\ IsZeroRead(trace[i - 1])

(* C4 (as claimed): once the loop has reached Idle, the procedure ends     *)
(* only by invoking the reboot action or by the error abort of a failed    *)
(* confirmatory re-read.                                                   *)
C4_OnlyTwoOutcomes ==
    (InWait /\ pc = "exit" /\ \E i \in Positions(trace, IsLoopRead) : IsZeroRead(trace[i]))
        => \/ Positions(trace, IsReboot) # {}
           \/ /\ exitCode = 1
              /\ \E i \in Positions(trace, IsFinalRead) : ~trace[i].ok

(* C5: when every read of the poll loop succeeds, n of them with a count   *)
(* above 0 and then one with count 0, the procedure has slept the long     *)
(* interval exactly n times and the short backoff never; it performs at    *)
(* most one confirmatory re-read, exactly one before it ends, and a reboot *)
(* comes only after that re-read.                                          *)
C5_SleepsPerActiveRead ==
    LET loop == SelectSeq(trace, IsLoopRead)
        finals == Positions(trace, IsFinalRead)
    IN  (/\ InWait
         /\ loop # <<>>
         /\ \A i \in 1..Len(loop) : loop[i].ok
         /\ loop[Len(loop)].n = 0)
          => /\ \A i \in 1..(Len(loop) - 1) : loop[i].n > 0
             /\ CountEv(trace, IsLongSleep) = Len(loop) - 1
             /\ CountEv(trace, IsShortSleep) = 0
             /\ Cardinality(finals) <= 1
             /\ pc = "exit" => Cardinality(finals) = 1
             /\ \A b \in Positions(trace, IsReboot) :
                  \E c \in finals :
                     /\ c < b
                     /\ \A l \in Positions(trace, IsLoopRead) : l < c

\* the scenario of the specification: active, active, idle, re-read, reboot
C5_Witness ==
    LET loop == SelectSeq(trace, IsLoopRead)
    IN  /\ Len(loop) = 3
        /\ IsActiveRead(loop[1]) /\ IsActiveRead(loop[2]) /\ IsZeroRead(loop[3])
        /\ CountEv(trace, IsLongSleep) = 2
        /\ Positions(trace, IsReboot) # {}

\* the first thing forcereboot does is the write of "idle", and a failed
\* write is the last thing it does
C6_StopFirst ==
    (cmd = "forcereboot" /\ trace # <<>>) =>
        /\ trace[1].op = "WriteFile" /\ trace[1].at = syncActionPath /\ trace[1].s = "idle"
        /\ Cardinality(Positions(trace, LAMBDA e : e.op = "WriteFile")) = 1
        /\ IF trace[1].ok
           THEN forced /\ syncAction = "idle"
           ELSE /\ trace = <<EvWrite(syncActionPath, "idle", FALSE),
                             EvFatal("Error stopping raid check")>>
                /\ pc = "exit"
                /\ exitCode = 1
                /\ console = <<>>

\* forcereboot polls only once the write is done
C6_NoPollBeforeStop ==
    (cmd = "forcereboot" /\ pc \in {"poll", "final"}) => (trace # <<>> /\ trace[1].ok)

\* a step taken inside the procedure is a step of the unforced procedure
C6_SameProcedure ==
    pc \in {"poll", "final"} => waitForRaidAndReboot(FALSE)

(* C6: forcereboot first writes "idle" to the sync-action path; when that  *)
(* write fails the command is fatal and neither reads, sleeps nor reboots; *)
(* when it succeeds, every step of the procedure that follows is a step    *)
(* waitForRaidAndReboot takes with forced = false.                         *)
C6_ForcedRunsSameLoop ==
    /\ [](C6_StopFirst /\ C6_NoPollBeforeStop)
    /\ [][C6_SameProcedure]_vars

\* a forced run that polled an active check, slept and finally rebooted
C6_Witness ==
    /\ cmd = "forcereboot"
    /\ forced
    /\ Positions(trace, IsReboot) # {}
    /\ Positions(trace, IsActiveRead) # {}

(* C7 (as claimed): when high is given a minutes value that is no number,  *)
(* the process ends with an error and has performed no write to a control  *)
(* file.                                                                   *)
C7_InvalidArgumentBeforeSideEffect ==
    (cmd = "high" /\ Len(args) > 0 /\ ~AtoiOk(args[1]) /\ pc = "exit")
        => /\ exitCode = 1
           /\ Positions(trace, IsWriteDone) = {}

\* a failed open, read or write of a kernel file ("none" is getMdProgress
\* finding no bar, which is no I/O failure)
IsIOFailure(e) ==
    /\ e.op \in {"getMdChecking", "getMdTimeLeft", "getMdProgress", "getCurrentSpeed",
                 "WriteFile"}
    /\ ~e.ok
    /\ e.s # "none"

OneShot == Commands \ {"reboot", "forcereboot"}

---------------------------------------------------------------------------
IsSpace(c) == c \in {" ", "\t"}

\* the characters after the first "finish=" of l, up to the next whitespace
TokenAfterFinish(l) ==
    LET i == MinOf({j \in 1..(Len(l) - Len(sFinishEq) + 1) :
                       SubSeq(l, j, j + Len(sFinishEq) - 1) = sFinishEq})
        g == i + Len(sFinishEq)
    IN  SubSeq(l, g, g + RunLen(l, g, LAMBDA c : ~IsSpace(c)) - 1)

(* C9 (as claimed): when the first line of the status file holds           *)
(* "finish=" and a token after it, getMdTimeLeft returns that token up to, *)
(* and not including, the next whitespace character; when the scan ends    *)
(* without a match and without a read error, the result is empty with no   *)
(* error.                                                                  *)
C9_TokenUpToWhitespace ==
    (fn = "getMdTimeLeft" /\ pc = "returned" /\ ret.err = "") =>
        IF scanned = 1 /\ Contains(line, sFinishEq) /\ TokenAfterFinish(line) # <<>>
        THEN ret.str = TokenAfterFinish(line)
        ELSE line = <<>> => ret.str = <<>>

\* the brackets of l that hold one or more characters, all of them =, > or .
QualBrackets(l) ==
    {b \in (1..Len(l)) \X (1..Len(l)) :
        /\ b[1] + 1 < b[2]
        /\ l[b[1]] = "["
        /\ l[b[2]] = "]"
        /\ \A k \in (b[1] + 1)..(b[2] - 1) : l[k] \in {"=", ">", "."}}

Qualifies(l) ==
    /\ Contains(l, sCheck) \/ Contains(l, sResync)
    /\ QualBrackets(l) # {}

FirstBracket(l) ==
    CHOOSE b \in QualBrackets(l) : \A c \in QualBrackets(l) : b[1] <= c[1]

BarLength(l) == FirstBracket(l)[2] - FirstBracket(l)[1] - 1

BarFill(l) ==
    Cardinality({k \in (FirstBracket(l)[1] + 1)..(FirstBracket(l)[2] - 1) :
                    l[k] \in {"=", ">"}})

\* the loop body returns k/L*100 on a qualifying line and passes over any other
C10_Body ==
    (fn = "getMdProgress" /\ pc = "body") =>
        IF Qualifies(line)
        THEN /\ pc' = "returned"
             /\ ret'.err = ""
             /\ ret'.den > 0
             /\ ret'.num * BarLength(line) = BarFill(line) * 100 * ret'.den
        ELSE /\ pc' = "scan"
             /\ ret' = ret

\* the end of the file gives no progress
C10_FileEnds ==
    (fn = "getMdProgress" /\ pc = "scan" /\ pc' = "returned") =>
        ret'.err \in {"no progress information found", "read"}

\* a progress is returned for a qualifying line only, and its divisor is not 0
C10_Returned ==
    (fn = "getMdProgress" /\ pc = "returned") =>
        /\ ret.den > 0
        /\ ret.err = "" => (Qualifies(line) /\ ret.num <= 100 * ret.den)

(* C10: getMdProgress returns at the first line that contains "check" or   *)
(* "resync" and a bracket of one or more characters all from =, > and .;   *)
(* with L the length of the leftmost such bracket of that line and k the   *)
(* number of = and > in it, the result is k/L*100.  A line without such a  *)
(* bracket (the device-state bracket, the empty bracket) is passed over,   *)
(* the divisor is never 0, and a file that ends without such a line gives  *)
(* the error "no progress information found" (or the read error).          *)
C10_ProgressFromFirstBar ==
    /\ []C10_Returned
    /\ [][C10_Body /\ C10_FileEnds]_vars

\* the second line of the file holds the device-state bracket, then "check"
\* and a partly filled bar; the first line was passed over
C10_Witness ==
    /\ fn = "getMdProgress"
    /\ pc = "returned"
    /\ ret.err = ""
    /\ scanned = 2
    /\ Contains(line, <<"[", "U", "U", "_", "]">>)
    /\ 0 < ret.num
    /\ ret.num < 100 * ret.den

---------------------------------------------------------------------------
\* the text between the brackets of a drawn bar
Inner(text) == SubSeq(text, 2, Len(text) - 1)

\* floor(W * percent / 100) for a percent of [0, 100]
Fill(p, w) == (w * p[1]) \div (100 * p[2])

====
